---- MODULE Spec2Model ----
(***************************************************************************)
(* Model of gcal_discord_poster/utils/conf.py: the JSON config store       *)
(* (setup_config_dir, get_config, save_config) and the Google credential   *)
(* helpers (get_saved_google_credentials, stash_google_credentials,        *)
(* get_new_google_credentials).                                            *)
(*                                                                         *)
(* JSON values are tagged records: Null, Str(s) and Obj(f), f a function   *)
(* from key strings to JSON values.  A file's content is a sequence of     *)
(* JSON tokens; json.dump and json.load are modelled as a serialiser and a *)
(* recursive-descent parser over such sequences (whitespace, which load    *)
(* skips, is left out).                                                    *)
(***************************************************************************)
EXTENDS Integers, Sequences, FiniteSets, TLC

VARIABLES fs, config, creds, last, flow, procs, hist

vars == <<fs, config, creds, last, flow, procs, hist>>

(***************************************************************************)
(* Bounds                                                                  *)
(***************************************************************************)
\* number of distinct non-empty sample strings per credential field
NumStrings == 2

\* number of load-change-save rounds each concurrent process runs
MaxRounds == 2

(***************************************************************************)
(* JSON values                                                             *)
(***************************************************************************)
Null == [t |-> "null", v |-> ""]

Str(s) == [t |-> "str", v |-> s]

Obj(f) == [t |-> "obj", v |-> f]

EmptyMap == [k \in {} |-> Null]

\* d[k] = x on a Python dict
Put(d, k, x) == Obj([j \in (DOMAIN d.v) \cup {k} |-> IF j = k THEN x ELSE d.v[j]])

\* d.get(k, default)
Get(d, k, default) == IF k \in DOMAIN d.v THEN d.v[k] ELSE default

\* Python truthiness of a JSON value: None, "" and {} are falsy
Truthy(x) == x # Null /\ x # Str("") /\ x # Obj(EmptyMap)

(***************************************************************************)
(* json.dump(config, file, indent=4, sort_keys=True) and json.load(file)   *)
(***************************************************************************)
LBrace == [t |-> "p", v |-> "{"]

RBrace == [t |-> "p", v |-> "}"]

Colon == [t |-> "p", v |-> ":"]

Comma == [t |-> "p", v |-> ","]

NullTok == [t |-> "p", v |-> "null"]

StrTok(s) == [t |-> "s", v |-> s]

\* every key the program or the sample files use, in sorted order (sort_keys=True)
KeyOrder ==
    <<"channel", "client_id", "client_secret", "discord", "expiry", "google", "oauth",
      "refresh_token", "token", "token_uri">>

SortedKeys(D) == SelectSeq(KeyOrder, LAMBDA k : k \in D)

RECURSIVE json_dump(_)
RECURSIVE DumpMembers(_, _)
DumpMembers(f, ks) ==
    IF ks = <<>> THEN <<>>
    ELSE <<StrTok(Head(ks)), Colon>> \o json_dump(f[Head(ks)])
         \o (IF Len(ks) > 1 THEN <<Comma>> ELSE <<>>)
         \o DumpMembers(f, Tail(ks))

json_dump(x) ==
    IF x.t = "obj" THEN <<LBrace>> \o DumpMembers(x.v, SortedKeys(DOMAIN x.v)) \o <<RBrace>>
    ELSE IF x.t = "str" THEN <<StrTok(x.v)>>
    ELSE <<NullTok>>

ParseFail == [ok |-> FALSE, val |-> Null, rest |-> <<>>]

RECURSIVE ParseValue(_)
RECURSIVE ParseMembers(_, _)
\* after "{" or ",": string ":" value, then "," and more members, or "}"
ParseMembers(toks, acc) ==
    IF Len(toks) < 3 \/ toks[1].t # "s" \/ toks[2] # Colon THEN ParseFail
    ELSE LET r == ParseValue(SubSeq(toks, 3, Len(toks))) IN
         IF ~r.ok \/ r.rest = <<>> THEN ParseFail
         ELSE LET k == toks[1].v
                  acc2 == [j \in (DOMAIN acc) \cup {k} |-> IF j = k THEN r.val ELSE acc[j]]
              IN  IF Head(r.rest) = RBrace
                  THEN [ok |-> TRUE, val |-> Obj(acc2), rest |-> Tail(r.rest)]
                  ELSE IF Head(r.rest) = Comma THEN ParseMembers(Tail(r.rest), acc2)
                  ELSE ParseFail

ParseValue(toks) ==
    IF toks = <<>> THEN ParseFail
    ELSE LET h == Head(toks) IN
         IF h = LBrace
         THEN IF Len(toks) >= 2 /\ toks[2] = RBrace
              THEN [ok |-> TRUE, val |-> Obj(EmptyMap), rest |-> SubSeq(toks, 3, Len(toks))]
              ELSE ParseMembers(Tail(toks), EmptyMap)
         ELSE IF h.t = "s" THEN [ok |-> TRUE, val |-> Str(h.v), rest |-> Tail(toks)]
         ELSE IF h = NullTok THEN [ok |-> TRUE, val |-> Null, rest |-> Tail(toks)]
         ELSE ParseFail

\* the whole text must be one JSON value ("Extra data" otherwise)
json_load(text) ==
    LET r == ParseValue(text) IN
    IF r.ok /\ r.rest = <<>> THEN [ok |-> TRUE, val |-> r.val]
    ELSE [ok |-> FALSE, val |-> Null]

(***************************************************************************)
(* The filesystem: the config directory CONFIG_DIR and the config path     *)
(* CONFIG_DIR/CONFIG_FILE_NAME.                                            *)
(*   fs.dir  : "absent" | "dir" | "file"                                   *)
(*   fs.path : "absent" | "file" | "dir"   (absent unless fs.dir = "dir")  *)
(*   fs.text : the tokens of the file at the config path                   *)
(***************************************************************************)
\* variant: os.makedirs without the os.path.exists test before it
setup_config_dir_always_makedirs(f) ==
    IF f.dir = "absent" THEN [outcome |-> "ok", fs |-> [f EXCEPT !.dir = "dir"]]
    ELSE [outcome |-> "FileExistsError", fs |-> f]

\* os.path.exists / os.makedirs / os.path.isdir on CONFIG_DIR
setup_config_dir(f) ==
    IF f.dir = "absent" THEN [outcome |-> "ok", fs |-> [f EXCEPT !.dir = "dir"]]
    ELSE IF f.dir # "dir" THEN [outcome |-> "RuntimeError", fs |-> f]
    ELSE [outcome |-> "ok", fs |-> f]

\* variant: the file is opened without truncation (mode "r+" or "a+" and seek(0))
open_without_truncate(f) ==
    IF f.path = "dir" THEN [outcome |-> "IsADirectoryError", fs |-> f]
    ELSE IF f.dir # "dir" THEN [outcome |-> "FileNotFoundError", fs |-> f]
    ELSE [outcome |-> "ok", fs |-> [f EXCEPT !.path = "file"]]

\* open(config_path, "w"): creates or truncates the file
open_w(f) ==
    IF f.path = "dir" THEN [outcome |-> "IsADirectoryError", fs |-> f]
    ELSE IF f.dir # "dir" THEN [outcome |-> "FileNotFoundError", fs |-> f]
    ELSE [outcome |-> "ok", fs |-> [f EXCEPT !.path = "file", !.text = <<>>]]

\* a write of text at offset 0 of an open file, then close
write_at_0(f, text) ==
    [f EXCEPT !.text = text \o SubSeq(f.text, Len(text) + 1, Len(f.text))]

get_config(f) ==
    IF f.path = "dir" THEN [outcome |-> "RuntimeError", ret |-> Null]
    ELSE IF f.path = "file"
         THEN LET r == json_load(f.text) IN
              IF r.ok THEN [outcome |-> "ok", ret |-> r.val]
              ELSE [outcome |-> "JSONDecodeError", ret |-> Null]
    ELSE [outcome |-> "ok", ret |-> Obj(EmptyMap)]

\* variant: save_config without its os.path.isdir(config_path) test
save_config_without_isdir(f, c) ==
    LET s == setup_config_dir(f) IN
    IF s.outcome # "ok" THEN s
    ELSE LET o == open_w(s.fs) IN
         IF o.outcome # "ok" THEN o
         ELSE [outcome |-> "ok", fs |-> write_at_0(o.fs, json_dump(c))]

save_config(f, c) ==
    IF f.path = "dir" THEN [outcome |-> "RuntimeError", fs |-> f]
    ELSE LET s == setup_config_dir(f) IN
         IF s.outcome # "ok" THEN s
         ELSE LET o == open_w(s.fs) IN
              IF o.outcome # "ok" THEN o
              ELSE [outcome |-> "ok", fs |-> write_at_0(o.fs, json_dump(c))]

(***************************************************************************)
(* google.oauth2.credentials.Credentials, as conf.py uses it.  A credential *)
(* object has the five persisted fields and an expiry; None is Null.  The   *)
(* expiry is a timestamp, abstracted to its relation to the clock.          *)
(***************************************************************************)
Fields == {"refresh_token", "token", "client_id", "client_secret", "token_uri"}

ExpiryPast == "2019-01-01T00:00:00"

ExpiryFuture == "2099-01-01T00:00:00"

RefreshedToken == "t-refreshed"

NoCred == [none |-> TRUE]

\* Credentials(**d): token is the one required argument, the others default to None
Credentials(d) ==
    IF "token" \notin DOMAIN d THEN [ok |-> FALSE, obj |-> NoCred]
    ELSE [ok |-> TRUE,
          obj |-> [k \in Fields \cup {"expiry"} |-> IF k \in DOMAIN d THEN d[k] ELSE Null]]

\* credentials.expired: an expiry is set and has passed
expired(k) == Truthy(k.expiry) /\ k.expiry = Str(ExpiryPast)

\* credentials.valid: token is not None and not expired
valid(k) == k.token # Null /\ ~expired(k)

\* credentials.refresh(Request()): one token request to token_uri, unless a field
\* it needs is None; netOk is the outcome of the request
refresh(k, netOk) ==
    IF k.refresh_token = Null \/ k.token_uri = Null \/ k.client_id = Null
       \/ k.client_secret = Null
    THEN [outcome |-> "RefreshError", obj |-> NoCred, net |-> FALSE]
    ELSE IF ~netOk THEN [outcome |-> "RefreshError", obj |-> NoCred, net |-> TRUE]
    ELSE [outcome |-> "ok", net |-> TRUE,
          obj |-> [k EXCEPT !.token = Str(RefreshedToken), !.expiry = Str(ExpiryFuture)]]

(***************************************************************************)
(* The credential helpers of conf.py                                       *)
(***************************************************************************)
\* variant: the presence test leaves out client_secret
get_saved_without_secret_test(c, netOk) ==
    LET d == Get(Get(c, "oauth", Obj(EmptyMap)), "google", Obj(EmptyMap)) IN
    IF \/ ~Truthy(d)
       \/ "refresh_token" \notin DOMAIN d.v
       \/ "client_id" \notin DOMAIN d.v
    THEN [outcome |-> "ok", ret |-> NoCred, net |-> FALSE]
    ELSE LET k == Credentials(d.v) IN
         IF ~k.ok THEN [outcome |-> "TypeError", ret |-> NoCred, net |-> FALSE]
         ELSE IF ~valid(k.obj)
              THEN IF expired(k.obj) /\ Truthy(k.obj.refresh_token)
                   THEN LET r == refresh(k.obj, netOk) IN
                        [outcome |-> r.outcome, ret |-> r.obj, net |-> r.net]
                   ELSE [outcome |-> "ok", ret |-> NoCred, net |-> FALSE]
              ELSE [outcome |-> "ok", ret |-> k.obj, net |-> FALSE]

\* variant: an invalid credential that cannot be refreshed is returned all the same
get_saved_without_else(c, netOk) ==
    LET d == Get(Get(c, "oauth", Obj(EmptyMap)), "google", Obj(EmptyMap)) IN
    IF \/ ~Truthy(d)
       \/ "refresh_token" \notin DOMAIN d.v
       \/ "client_id" \notin DOMAIN d.v
       \/ "client_secret" \notin DOMAIN d.v
    THEN [outcome |-> "ok", ret |-> NoCred, net |-> FALSE]
    ELSE LET k == Credentials(d.v) IN
         IF ~k.ok THEN [outcome |-> "TypeError", ret |-> NoCred, net |-> FALSE]
         ELSE IF ~valid(k.obj) /\ expired(k.obj) /\ Truthy(k.obj.refresh_token)
              THEN LET r == refresh(k.obj, netOk) IN
                   [outcome |-> r.outcome, ret |-> r.obj, net |-> r.net]
              ELSE [outcome |-> "ok", ret |-> k.obj, net |-> FALSE]

get_saved_google_credentials(c, netOk) ==
    LET d == Get(Get(c, "oauth", Obj(EmptyMap)), "google", Obj(EmptyMap)) IN
    IF \/ ~Truthy(d)
       \/ "refresh_token" \notin DOMAIN d.v
       \/ "client_id" \notin DOMAIN d.v
       \/ "client_secret" \notin DOMAIN d.v
    THEN [outcome |-> "ok", ret |-> NoCred, net |-> FALSE]
    ELSE LET k == Credentials(d.v) IN
         IF ~k.ok THEN [outcome |-> "TypeError", ret |-> NoCred, net |-> FALSE]
         ELSE IF ~valid(k.obj)
              THEN IF expired(k.obj) /\ Truthy(k.obj.refresh_token)
                   THEN LET r == refresh(k.obj, netOk) IN
                        [outcome |-> r.outcome, ret |-> r.obj, net |-> r.net]
                   ELSE [outcome |-> "ok", ret |-> NoCred, net |-> FALSE]
              ELSE [outcome |-> "ok", ret |-> k.obj, net |-> FALSE]

\* the five-field record written under config["oauth"]["google"]
CredentialRecord(k) == Obj([f \in Fields |-> k[f]])

\* variant: the access token is written under both token keys
stash_with_token_twice(c, k) ==
    LET c1 == IF "oauth" \notin DOMAIN c.v THEN Put(c, "oauth", Obj(EmptyMap)) ELSE c
        rec == Obj([f \in Fields |-> IF f = "refresh_token" THEN k["token"] ELSE k[f]])
    IN  Put(c1, "oauth", Put(c1.v["oauth"], "google", rec))

stash_google_credentials(c, k) ==
    LET c1 == IF "oauth" \notin DOMAIN c.v THEN Put(c, "oauth", Obj(EmptyMap)) ELSE c
    IN  Put(c1, "oauth", Put(c1.v["oauth"], "google", CredentialRecord(k)))

\* variant: the credential is stashed before the save flag is looked at
get_new_stash_first(c, f, save, flowOk, k) ==
    IF ~flowOk
    THEN [outcome |-> "FlowError", ret |-> NoCred, config |-> c, fs |-> f]
    ELSE LET c2 == stash_google_credentials(c, k) IN
         IF save
         THEN LET s == save_config(f, c2) IN
              [outcome |-> s.outcome, ret |-> IF s.outcome = "ok" THEN k ELSE NoCred,
               config |-> c2, fs |-> s.fs]
         ELSE [outcome |-> "ok", ret |-> k, config |-> c2, fs |-> f]

\* flowOk: whether from_client_secrets_file and run_local_server return; k is the
\* credential the flow hands back
get_new_google_credentials(c, f, save, flowOk, k) ==
    IF ~flowOk
    THEN [outcome |-> "FlowError", ret |-> NoCred, config |-> c, fs |-> f]
    ELSE IF save
         THEN LET c2 == stash_google_credentials(c, k)
                  s == save_config(f, c2)
              IN  [outcome |-> s.outcome, ret |-> IF s.outcome = "ok" THEN k ELSE NoCred,
                   config |-> c2, fs |-> s.fs]
    ELSE [outcome |-> "ok", ret |-> k, config |-> c, fs |-> f]

(***************************************************************************)
(* Sample data: the credentials, records and files the operations are run  *)
(* on.                                                                     *)
(***************************************************************************)
Sample ==
    [refresh_token |-> <<"r1", "r2", "r3", "r4">>,
     token         |-> <<"t1", "t2", "t3", "t4">>,
     client_id     |-> <<"c1", "c2", "c3", "c4">>,
     client_secret |-> <<"s1", "s2", "s3", "s4">>,
     token_uri     |-> <<"u1", "u2", "u3", "u4">>]

Profile(i) == [f \in Fields |-> Str(Sample[f][i])]

Restrict(f, S) == [k \in S |-> f[k]]

WithExpiry(r, e) == [k \in (DOMAIN r) \cup {"expiry"} |-> IF k = "expiry" THEN e ELSE r[k]]

\* credential objects the interactive flow hands back: a fresh token, and a
\* refresh token when the provider issues one
FlowCredsOf(i) ==
    { WithExpiry([Profile(i) EXCEPT !["refresh_token"] = rt], Str(ExpiryFuture)) :
        rt \in {Null, Str(Sample["refresh_token"][i])} }

FlowCreds == UNION { FlowCredsOf(i) : i \in 1..NumStrings }

\* credential objects a caller may hold: those, an expired one and one without a token
UserCredsOf(i) ==
    FlowCredsOf(i)
    \cup { WithExpiry(Profile(i), Str(ExpiryPast)),
           WithExpiry([Profile(i) EXCEPT !["token"] = Null], Null) }

UserCreds == UNION { UserCredsOf(i) : i \in 1..NumStrings }

\* records found under oauth.google of a config file: every subset of the five
\* fields, and the full record with one field null or empty; the full ones also
\* with an expiry
FullRecords ==
    { Profile(1) } \cup { [Profile(1) EXCEPT ![f] = x] : f \in Fields, x \in {Null, Str("")} }

SampleRecords ==
    { Restrict(Profile(1), S) : S \in SUBSET Fields }
    \cup FullRecords
    \cup { WithExpiry(r, e) : r \in FullRecords, e \in {Str(ExpiryPast), Str(ExpiryFuture)} }

OauthOf(r) == Obj([k \in {"oauth"} |-> Obj([j \in {"google"} |-> Obj(r)])])

SampleConfigs ==
    { Obj(EmptyMap),
      Obj([k \in {"channel"} |-> Str("general")]),
      Obj([k \in {"oauth"} |-> Obj(EmptyMap)]),
      Obj([k \in {"oauth"} |-> Obj([j \in {"discord"} |-> Str("hook")])]),
      Obj([k \in {"channel", "oauth"} |->
            IF k = "channel" THEN Str("general")
            ELSE Obj([j \in {"discord", "google"} |->
                       IF j = "discord" THEN Str("hook") ELSE Obj(Profile(NumStrings))])]) }
    \cup { OauthOf(r) : r \in SampleRecords }

\* an empty file and a truncated one: not JSON
BrokenTexts == { <<>>, <<LBrace, StrTok("oauth"), Colon>> }

InitFS ==
    { [dir |-> "absent", path |-> "absent", text |-> <<>>],
      [dir |-> "file", path |-> "absent", text |-> <<>>],
      [dir |-> "dir", path |-> "absent", text |-> <<>>],
      [dir |-> "dir", path |-> "dir", text |-> <<>>] }
    \cup { [dir |-> "dir", path |-> "file", text |-> json_dump(c)] : c \in SampleConfigs }
    \cup { [dir |-> "dir", path |-> "file", text |-> x] : x \in BrokenTexts }

\* the caller's dict before anything is loaded into it
InitConfigs == { Obj(EmptyMap) }

(***************************************************************************)
(* One caller, running the operations one after another.  config is the   *)
(* caller's dict; last records the operation that ran last and creds the   *)
(* credential it returned (NoCred for None, an exception, or an operation  *)
(* that returns no credential); flow follows the sequence stash, save,     *)
(* load, get-saved.                                                        *)
(***************************************************************************)
FlowReset == [stage |-> 0, k |-> NoCred]

Procs == {1, 2}

IdleProcs == [p \in Procs |-> [pc |-> "off", cfg |-> Obj(EmptyMap), round |-> 0, seen |-> Null]]

NoHist == [writer |-> 0, wrote |-> Null, over |-> Null, saved |-> {}, initial |-> Null]

Done(op, outcome, net, arg) ==
    [op |-> op, outcome |-> outcome, net |-> net, arg |-> arg, again |-> last.op = op]

Init ==
    /\ fs \in InitFS
    /\ config \in InitConfigs
    /\ creds = NoCred
    /\ last = [op |-> "none", outcome |-> "ok", net |-> FALSE, arg |-> "", again |-> FALSE]
    /\ flow = FlowReset
    /\ procs = IdleProcs
    /\ hist = NoHist

SetupConfigDir ==
    LET r == setup_config_dir(fs) IN
    /\ fs' = r.fs
    /\ last' = Done("setup_config_dir", r.outcome, FALSE, "")
    /\ flow' = FlowReset
    /\ creds' = NoCred
    /\ UNCHANGED <<config, procs, hist>>

\* config = get_config()
GetConfig ==
    LET r == get_config(fs) IN
    /\ config' = IF r.outcome = "ok" THEN r.ret ELSE config
    /\ last' = Done("get_config", r.outcome, FALSE, "")
    /\ flow' = IF flow.stage = 2 THEN [flow EXCEPT !.stage = 3] ELSE FlowReset
    /\ creds' = NoCred
    /\ UNCHANGED <<fs, procs, hist>>

\* save_config(config)
SaveConfig ==
    LET r == save_config(fs, config) IN
    /\ fs' = r.fs
    /\ last' = Done("save_config", r.outcome, FALSE, "")
    /\ flow' = IF flow.stage = 1 /\ r.outcome = "ok" THEN [flow EXCEPT !.stage = 2]
               ELSE FlowReset
    /\ creds' = NoCred
    /\ UNCHANGED <<config, procs, hist>>

\* stash_google_credentials(config, k)
Stash ==
    \E k \in UserCreds :
        /\ config' = stash_google_credentials(config, k)
        /\ last' = Done("stash_google_credentials", "ok", FALSE, "")
        /\ flow' = [stage |-> 1, k |-> k]
        /\ creds' = NoCred
    /\ UNCHANGED <<fs, procs, hist>>

\* creds = get_saved_google_credentials(config)
GetSaved ==
    \E netOk \in BOOLEAN :
        LET r == get_saved_google_credentials(config, netOk) IN
        /\ creds' = r.ret
        /\ last' = Done("get_saved_google_credentials", r.outcome, r.net, "")
        /\ flow' = IF flow.stage = 3 THEN [flow EXCEPT !.stage = 4] ELSE FlowReset
        /\ UNCHANGED <<fs, config, procs, hist>>

\* creds = get_new_google_credentials(config, client_id_path, save)
GetNew ==
    \E save \in BOOLEAN :
        \E flowOk \in BOOLEAN :
            \E k \in IF flowOk THEN FlowCreds ELSE {NoCred} :
                LET r == get_new_google_credentials(config, fs, save, flowOk, k) IN
                /\ creds' = r.ret
                /\ config' = r.config
                /\ fs' = r.fs
                /\ last' = Done("get_new_google_credentials", r.outcome, TRUE,
                                IF save THEN "save" ELSE "nosave")
                /\ flow' = FlowReset
                /\ UNCHANGED <<procs, hist>>

Next ==
    \/ SetupConfigDir
    \/ GetConfig
    \/ SaveConfig
    \/ Stash
    \/ GetSaved
    \/ GetNew

Spec == Init /\ [][Next]_vars

(***************************************************************************)
(* Two processes, each running get_config, a change to its copy and        *)
(* save_config, MaxRounds times, with the filesystem calls of the two      *)
(* interleaved.  An exception ends the process.  Each process has its own  *)
(* file object: a write goes to offset 0 of the file as it is then.        *)
(*   procs[p].seen : what the other process wrote since p opened the file  *)
(*                   and since the last truncation (Null: nothing)         *)
(*   hist.writer, hist.wrote, hist.over : the process that wrote last, its *)
(*                   config, and its seen at that moment                   *)
(*   hist.saved    : the configs written so far                            *)
(*   hist.initial  : what get_config returned before any of it             *)
(***************************************************************************)
ConcFS ==
    { [dir |-> "absent", path |-> "absent", text |-> <<>>],
      [dir |-> "dir", path |-> "absent", text |-> <<>>],
      [dir |-> "dir", path |-> "file", text |-> json_dump(Obj(EmptyMap))],
      [dir |-> "dir", path |-> "file",
       text |-> json_dump(Obj([k \in {"channel"} |-> Str("general")]))] }

Other(p) == CHOOSE q \in Procs : q # p

\* the changes a process may make to its copy: set a key, or delete it
Changes(p, c) ==
    { Put(c, "channel", Str(Sample["token"][p])),
      Obj(Restrict(c.v, (DOMAIN c.v) \ {"channel"})) }

Goto(p, pc) == procs' = [procs EXCEPT ![p].pc = pc]

InitConc ==
    /\ fs \in ConcFS
    /\ config = Obj(EmptyMap)
    /\ creds = NoCred
    /\ last = [op |-> "none", outcome |-> "ok", net |-> FALSE, arg |-> "", again |-> FALSE]
    /\ flow = FlowReset
    /\ procs = [p \in Procs |-> [pc |-> "g_isdir", cfg |-> Obj(EmptyMap), round |-> 0, seen |-> Null]]
    /\ hist = [NoHist EXCEPT !.initial = get_config(fs).ret]

\* get_config: os.path.isdir(config_path)
GetIsDir(p) ==
    /\ procs[p].pc = "g_isdir"
    /\ Goto(p, IF fs.path = "dir" THEN "RuntimeError" ELSE "g_isfile")
    /\ UNCHANGED <<fs, config, creds, last, flow, hist>>

\* get_config: os.path.isfile(config_path); config = {} when it is not
GetIsFile(p) ==
    /\ procs[p].pc = "g_isfile"
    /\ procs' = IF fs.path = "file" THEN [procs EXCEPT ![p].pc = "g_load"]
                ELSE [procs EXCEPT ![p].pc = "change", ![p].cfg = Obj(EmptyMap)]
    /\ UNCHANGED <<fs, config, creds, last, flow, hist>>

\* get_config: open(config_path, "r") and json.load
GetLoad(p) ==
    /\ procs[p].pc = "g_load"
    /\ LET r == json_load(fs.text) IN
       procs' = IF r.ok THEN [procs EXCEPT ![p].pc = "change", ![p].cfg = r.val]
                ELSE [procs EXCEPT ![p].pc = "JSONDecodeError"]
    /\ UNCHANGED <<fs, config, creds, last, flow, hist>>

\* the caller changes its copy
Change(p) ==
    /\ procs[p].pc = "change"
    /\ \E c \in Changes(p, procs[p].cfg) :
           procs' = [procs EXCEPT ![p].pc = "s_isdir", ![p].cfg = c]
    /\ UNCHANGED <<fs, config, creds, last, flow, hist>>

\* save_config: os.path.isdir(config_path)
SaveIsDir(p) ==
    /\ procs[p].pc = "s_isdir"
    /\ Goto(p, IF fs.path = "dir" THEN "RuntimeError" ELSE "s_exists")
    /\ UNCHANGED <<fs, config, creds, last, flow, hist>>

\* setup_config_dir: os.path.exists, and os.path.isdir when it exists
SaveExists(p) ==
    /\ procs[p].pc = "s_exists"
    /\ Goto(p, IF fs.dir = "absent" THEN "s_makedirs"
               ELSE IF fs.dir # "dir" THEN "RuntimeError"
               ELSE "s_open")
    /\ UNCHANGED <<fs, config, creds, last, flow, hist>>

\* setup_config_dir: os.makedirs, which raises when the directory is there by now
SaveMakedirs(p) ==
    /\ procs[p].pc = "s_makedirs"
    /\ IF fs.dir = "absent"
       THEN fs' = [fs EXCEPT !.dir = "dir"] /\ Goto(p, "s_open")
       ELSE fs' = fs /\ Goto(p, "FileExistsError")
    /\ UNCHANGED <<config, creds, last, flow, hist>>

\* variant: the file is opened without truncation
SaveOpenWithoutTruncate(p) ==
    /\ procs[p].pc = "s_open"
    /\ LET o == open_without_truncate(fs) IN
       /\ fs' = o.fs
       /\ procs' = [procs EXCEPT ![p].pc = IF o.outcome = "ok" THEN "s_write" ELSE o.outcome,
                                 ![p].seen = Null,
                                 ![Other(p)].seen = Null]
    /\ UNCHANGED <<config, creds, last, flow, hist>>

\* save_config: open(config_path, "w")
SaveOpen(p) ==
    /\ procs[p].pc = "s_open"
    /\ LET o == open_w(fs) IN
       /\ fs' = o.fs
       /\ procs' = [procs EXCEPT ![p].pc = IF o.outcome = "ok" THEN "s_write" ELSE o.outcome,
                                 ![p].seen = Null,
                                 ![Other(p)].seen = Null]
    /\ UNCHANGED <<config, creds, last, flow, hist>>

\* save_config: json.dump and the close that flushes it
SaveWrite(p) ==
    /\ procs[p].pc = "s_write"
    /\ fs' = write_at_0(fs, json_dump(procs[p].cfg))
    /\ procs' = [procs EXCEPT
                   ![p].pc = IF procs[p].round + 1 < MaxRounds THEN "g_isdir" ELSE "done",
                   ![p].round = @ + 1,
                   ![Other(p)].seen = IF procs[Other(p)].pc = "s_write" THEN procs[p].cfg ELSE @]
    /\ hist' = [hist EXCEPT !.writer = p, !.wrote = procs[p].cfg, !.over = procs[p].seen,
                            !.saved = @ \cup {procs[p].cfg}]
    /\ UNCHANGED <<config, creds, last, flow>>

NextConc ==
    \E p \in Procs :
        \/ GetIsDir(p)
        \/ GetIsFile(p)
        \/ GetLoad(p)
        \/ Change(p)
        \/ SaveIsDir(p)
        \/ SaveExists(p)
        \/ SaveMakedirs(p)
        \/ SaveOpen(p)
        \/ SaveWrite(p)

SpecConc == InitConc /\ [][NextConc]_vars

(***************************************************************************)
(* Properties                                                              *)
(***************************************************************************)
HasRecord(c) == "oauth" \in DOMAIN c.v /\ "google" \in DOMAIN c.v["oauth"].v

RecordIn(c) == c.v["oauth"].v["google"]

FiveFieldRecord(k) == Obj([f \in Fields |-> k[f]])

\* C1: a successful save_config(c) followed by get_config() returns a mapping
\* deep-equal to c, whatever the file held before.
C1_RoundTrip ==
    [][ (last.op = "save_config" /\ last.outcome = "ok" /\ last'.op = "get_config")
        => (last'.outcome = "ok" /\ config' = config) ]_vars

\* a config with a credential record was saved over other content and read back
C1_Witness ==
    /\ flow.stage = 3
    /\ last.op = "get_config" /\ last.outcome = "ok"
    /\ HasRecord(config)
    /\ "channel" \notin DOMAIN config.v

LacksRequired(c) ==
    \/ ~HasRecord(c)
    \/ RecordIn(c) = Obj(EmptyMap)
    \/ \E f \in {"refresh_token", "client_id", "client_secret"} : f \notin DOMAIN RecordIn(c).v

\* C2: when oauth.google is absent or empty, or lacks refresh_token, client_id or
\* client_secret, get_saved_google_credentials returns None and makes no network call.
C2_NoCredentials ==
    (last.op = "get_saved_google_credentials" /\ LacksRequired(config))
    => (last.outcome = "ok" /\ creds = NoCred /\ ~last.net)

\* a record that has a token and lacks only client_secret was looked up
C2_Witness ==
    /\ last.op = "get_saved_google_credentials"
    /\ HasRecord(config)
    /\ DOMAIN RecordIn(config).v = Fields \ {"client_secret"}
    /\ creds = NoCred

\* C3: with a directory at the config path, get_config and save_config both end in
\* the RuntimeError and leave the filesystem as it was.
C3_DirectoryConflict ==
    [][ (fs.path = "dir" /\ last'.op \in {"get_config", "save_config"})
        => (last'.outcome = "RuntimeError" /\ fs' = fs) ]_vars

C3_Witness ==
    fs.path = "dir" /\ last.op = "save_config" /\ last.outcome = "RuntimeError"

\* C4: stash_google_credentials(config, k) with k valid, then save_config, get_config
\* and get_saved_google_credentials on the reloaded config: the credential returned has
\* k's five fields, and no network call is made.
C4_StashRoundTrip ==
    (flow.stage = 4 /\ valid(flow.k))
    => /\ last.outcome = "ok"
       /\ ~last.net
       /\ creds # NoCred
       /\ \A f \in Fields : creds[f] = flow.k[f]

\* the sequence ran to its end for a valid credential without a refresh token
C4_Witness ==
    /\ flow.stage = 4
    /\ valid(flow.k)
    /\ flow.k["refresh_token"] = Null
    /\ creds # NoCred

\* C5: a credential handed back by get_saved_google_credentials or by
\* get_new_google_credentials is valid, also after a refresh; a call that fails hands
\* back none.
C5_ValidOrNone ==
    /\ (last.op = "get_saved_google_credentials" /\ creds # NoCred) => valid(creds)
    /\ (last.op = "get_new_google_credentials" /\ last.outcome = "ok")
           => (creds # NoCred /\ valid(creds))
    /\ last.outcome # "ok" => creds = NoCred

\* an expired record was refreshed over the network and returned
C5_Witness ==
    /\ last.op = "get_saved_google_credentials"
    /\ last.net /\ last.outcome = "ok"
    /\ creds # NoCred
    /\ creds["token"] = Str(RefreshedToken)

Incomplete(c) ==
    \/ ~HasRecord(c)
    \/ \E f \in Fields : f \notin DOMAIN RecordIn(c).v \/ RecordIn(c).v[f] = Str("")

\* C6: a record in which any of the five fields is missing or empty is the normal
\* "absent" case: get_saved_google_credentials returns None and raises nothing.
C6_IncompleteIsAbsent ==
    (last.op = "get_saved_google_credentials" /\ Incomplete(config))
    => (last.outcome = "ok" /\ creds = NoCred)

\* C7: setup_config_dir on an absent or existing directory raises nothing and leaves
\* the directory in place; a second call in a row changes nothing.
C7_SetupIdempotent ==
    [][ (last'.op = "setup_config_dir" /\ fs.dir \in {"absent", "dir"})
        => /\ last'.outcome = "ok"
           /\ fs'.dir = "dir"
           /\ (last.op = "setup_config_dir" => fs' = fs) ]_vars

\* setup_config_dir ran twice in a row
C7_Witness ==
    /\ last.op = "setup_config_dir" /\ last.again
    /\ last.outcome = "ok"
    /\ fs.dir = "dir"

\* C8: after a get_config() that returns normally the config directory exists.
C8_GetConfigCreatesDir ==
    (last.op = "get_config" /\ last.outcome = "ok") => fs.dir = "dir"

\* C9: get_new_google_credentials that succeeds with save set leaves the returned
\* credential's five-field record under oauth.google in the config and in the file;
\* with save unset, or when the flow raises, config and file are unchanged.
C9_SaveOnSuccess ==
    [][ last'.op = "get_new_google_credentials"
        => /\ (last'.outcome = "ok" /\ last'.arg = "save")
                => /\ creds' # NoCred
                   /\ HasRecord(config')
                   /\ RecordIn(config') = FiveFieldRecord(creds')
                   /\ fs'.path = "file"
                   /\ json_load(fs'.text).ok
                   /\ HasRecord(json_load(fs'.text).val)
                   /\ RecordIn(json_load(fs'.text).val) = FiveFieldRecord(creds')
           /\ (last'.arg = "nosave" \/ last'.outcome = "FlowError")
                => (config' = config /\ fs' = fs) ]_vars

\* the flow succeeded with save set, over a file that held something else
C9_Witness ==
    /\ last.op = "get_new_google_credentials"
    /\ last.outcome = "ok" /\ last.arg = "save"
    /\ creds # NoCred
    /\ "discord" \in DOMAIN config.v["oauth"].v

\* both processes have saved and neither is between its open and its write
BothSaved ==
    \A p \in Procs : procs[p].round >= 1 /\ procs[p].pc # "s_write"

\* a get_config that returned normally returned a saved config or the initial content
ReadsSaved ==
    \A p \in Procs : procs[p].pc = "change" => procs[p].cfg \in hist.saved \cup {hist.initial}

\* C10: once both saves have completed the file holds exactly the config of the
\* process whose save finished last, and a get_config that returns normally returns a
\* saved config or the initial content.
C10_LastWriterWins ==
    /\ BothSaved => (fs.path = "file" /\ json_load(fs.text) = [ok |-> TRUE, val |-> hist.wrote])
    /\ ReadsSaved

\* the other process wrote a longer text between the last writer's open and its write
Overlapped ==
    hist.over # Null /\ Len(json_dump(hist.over)) > Len(json_dump(hist.wrote))

\* C10, amended: the file holds exactly the last writer's config unless the other
\* process wrote a longer text between the last writer's open-and-truncate and its
\* write; then the file is the last writer's text followed by the rest of the other's,
\* and does not parse.  A get_config that returns normally returns a saved config or
\* the initial content.
C10_LastWriterWinsUnlessOverlapped ==
    /\ BothSaved =>
         /\ fs.path = "file"
         /\ IF Overlapped
            THEN LET mine == json_dump(hist.wrote)
                     other == json_dump(hist.over)
                 IN  /\ fs.text = mine \o SubSeq(other, Len(mine) + 1, Len(other))
                     /\ ~json_load(fs.text).ok
            ELSE json_load(fs.text) = [ok |-> TRUE, val |-> hist.wrote]
    /\ ReadsSaved

\* both saves done, the last one having overwritten the start of a longer text
C10_Witness ==
    BothSaved /\ Overlapped /\ \E p \in Procs : procs[p].pc = "JSONDecodeError"

====
